---------------------------- MODULE Spec2Model ----------------------------
(***************************************************************************)
(* A model of PHAST's dense matrix library (src/src/lib/base/matrix.c).    *)
(*                                                                         *)
(* A double is modelled as an exact rational <<num, den>> in lowest terms  *)
(* with den > 0.  A Matrix is a record [nrows, ncols, data] whose data is  *)
(* indexed from 0 as in C; a Vector is [size, data].  The caller owns a    *)
(* few matrices and vectors (mats, vecs) and passes them to the library by *)
(* reference, so that the same object may be passed in two argument        *)
(* positions.  The model is of the default build (LAPACK available,        *)
(* assertions compiled in).                                                *)
(***************************************************************************)
EXTENDS Integers, Sequences, FiniteSets, TLC

VARIABLES
  mats,      \* the caller's matrices, by reference
  vecs,      \* the caller's vectors, by reference
  mats0,     \* mats as they were when the call was made
  vecs0,     \* vecs as they were when the call was made
  call,      \* the library call made: [op, ...arguments]
  outcome,   \* "none" (no call yet), "returned", "aborted" (assert failed)
  ret,       \* the value returned by an int-valued call
  backend,   \* the calls made to the factorization backend, in order
  stderr,    \* the diagnostics written to stderr, in order
  oob,       \* the out-of-bounds element accesses made by the call
  outfile,   \* the lines written to the output stream, in order
  heap,      \* the allocator's blocks, by address: live or released, and their cells
  mtx,       \* the Matrix structure the caller's pointer refers to
  hpc,       \* where the matrix is in its life: "start", "live", "freed", "fault"
  faults,    \* the invalid uses of the allocator made so far
  hist,      \* the last storage call, with the heap and the matrix as it found them
  nresize,   \* the number of mat_resize calls made
  stream,    \* the characters of the input stream not yet consumed
  argv,      \* phyloBoot's command line after the program name, one option per element
  optind,    \* the index in argv of the next element getopt_long will look at
  nreps,     \* main's nreps
  input_mods,    \* main's input_mods: NULL or the models read for --read-mods
  do_estimates,  \* main's do_estimates
  quiet,     \* main's quiet
  pc,        \* where main is: "idle", "options", "setup", "replicates", "exited", "died"
  diemsg,    \* the message die() ended the program with, if it did
  rep,       \* the replicate loop's i
  nparams    \* main's nparams

callvars == <<mats, vecs, mats0, vecs0, call, outcome, ret, backend, stderr, oob>>

heapvars == <<heap, mtx, hpc, faults, hist, nresize>>

mainvars == <<argv, optind, nreps, input_mods, do_estimates, quiet, pc, diemsg, rep, nparams>>

vars == <<mats, vecs, mats0, vecs0, call, outcome, ret, backend, stderr, oob, outfile,
          heap, mtx, hpc, faults, hist, nresize, stream,
          argv, optind, nreps, input_mods, do_estimates, quiet, pc, diemsg, rep, nparams>>

(***************************************************************************)
(* Bounds of the model.                                                    *)
(***************************************************************************)
MaxDim == 2

Dims == 1..MaxDim

Seeds == {0, 1}

(***************************************************************************)
(* Exact arithmetic on doubles.                                            *)
(***************************************************************************)
Abs(n) == IF n < 0 THEN -n ELSE n

RECURSIVE GCD(_, _)
GCD(a, b) == IF b = 0 THEN a ELSE GCD(b, a % b)

Rat(n, d) ==
  LET s == IF d < 0 THEN -1 ELSE 1
      g == GCD(Abs(n), Abs(d))
  IN  <<(s * n) \div g, (s * d) \div g>>

RI(k) == <<k, 1>>

RZero == RI(0)

ROne == RI(1)

RAdd(x, y) == Rat(x[1] * y[2] + y[1] * x[2], x[2] * y[2])

RSub(x, y) == Rat(x[1] * y[2] - y[1] * x[2], x[2] * y[2])

RMul(x, y) == Rat(x[1] * y[1], x[2] * y[2])

RDiv(x, y) == Rat(x[1] * y[2], x[2] * y[1])

\* x < y.  Against a whole number the comparison is made on the integer part, so
\* that a bound as large as INFTY does not overflow the model's integers.
RLess(x, y) ==
  IF y[2] = 1 THEN (x[1] \div x[2]) < y[1]
  ELSE IF x[2] = 1 THEN x[1] <= (y[1] \div y[2])
  ELSE x[1] * y[2] < y[1] * x[2]

fabs(x) == <<Abs(x[1]), x[2]>>

(***************************************************************************)
(* Matrices and vectors.                                                   *)
(***************************************************************************)
MatIds == {"a", "b", "c"}

VecIds == {"u", "w"}

Matrix(r, c, d) == [nrows |-> r, ncols |-> c, data |-> d]

Vector(n, d) == [size |-> n, data |-> d]

\* m->data[i][j] = val
Store(ms, id, i, j, val) == [ms EXCEPT ![id].data[i][j] = val]

\* v->data[i] = val
VStore(vs, id, i, val) == [vs EXCEPT ![id].data[i] = val]

(***************************************************************************)
(* The values the caller fills its matrices and vectors with.              *)
(***************************************************************************)
Samples == <<RI(0), RI(1), RI(2), RI(-1), RI(3), Rat(1, 2), RI(-2)>>

Sample(n) == Samples[(n % Len(Samples)) + 1]

Fill(seed, r, c) ==
  Matrix(r, c, [i \in 0..(r - 1) |->
                 [j \in 0..(c - 1) |-> Sample((seed + 1) * (i * c + j + 1) + i * i * j + seed * j * j)]])

VFill(seed, n) == Vector(n, [i \in 0..(n - 1) |-> Sample(seed + 2 * i + 1)])

Offset(id) ==
  CASE id = "a" -> 0 [] id = "b" -> 3 [] id = "c" -> 5 [] id = "u" -> 1 [] id = "w" -> 4


(***************************************************************************)
(* How a call ends.  A failed assert aborts the process before anything is *)
(* written; a call that returns leaves the objects as the loops left them. *)
(***************************************************************************)
Returns(c, ms, vs, r, be, err, ob) ==
  /\ outcome = "none"
  /\ call' = c
  /\ mats0' = mats
  /\ vecs0' = vecs
  /\ mats' = ms
  /\ vecs' = vs
  /\ outcome' = "returned"
  /\ ret' = r
  /\ backend' = be
  /\ stderr' = err
  /\ oob' = ob
  /\ UNCHANGED <<outfile, heapvars, stream, mainvars>>

Aborts(c) ==
  /\ outcome = "none"
  /\ call' = c
  /\ mats0' = mats
  /\ vecs0' = vecs
  /\ outcome' = "aborted"
  /\ UNCHANGED <<mats, vecs, ret, backend, stderr, oob, outfile, heapvars, stream, mainvars>>

\* A void call that returns having touched only matrices.
Done(c, ms) == Returns(c, ms, vecs, ret, backend, stderr, oob)

SameShape(ms, x, y) == ms[x].nrows = ms[y].nrows /\ ms[x].ncols = ms[y].ncols

(***************************************************************************)
(* mat_copy                                                                *)
(***************************************************************************)
RECURSIVE mat_copy_j(_, _, _, _, _)
mat_copy_j(ms, dest, src, i, j) ==
  IF j >= ms[dest].ncols THEN ms
  ELSE mat_copy_j(Store(ms, dest, i, j, ms[src].data[i][j]), dest, src, i, j + 1)

RECURSIVE mat_copy_i(_, _, _, _)
mat_copy_i(ms, dest, src, i) ==
  IF i >= ms[dest].nrows THEN ms
  ELSE mat_copy_i(mat_copy_j(ms, dest, src, i, 0), dest, src, i + 1)

mat_copy_assert(ms, dest, src) == SameShape(ms, dest, src)

mat_copy(dest, src) ==
  /\ outcome = "none"
  /\ LET c == [op |-> "mat_copy", dest |-> dest, src |-> src]
     IN  IF mat_copy_assert(mats, dest, src)
         THEN Done(c, mat_copy_i(mats, dest, src, 0))
         ELSE Aborts(c)

(***************************************************************************)
(* mat_mult                                                                *)
(***************************************************************************)
RECURSIVE mat_mult_k(_, _, _, _, _, _, _)
mat_mult_k(ms, prod, m1, m2, i, j, k) ==
  IF k >= ms[m1].ncols THEN ms
  ELSE mat_mult_k(Store(ms, prod, i, j,
                        RAdd(ms[prod].data[i][j],
                             RMul(ms[m1].data[i][k], ms[m2].data[k][j]))),
                  prod, m1, m2, i, j, k + 1)

RECURSIVE mat_mult_j(_, _, _, _, _, _)
mat_mult_j(ms, prod, m1, m2, i, j) ==
  IF j >= ms[prod].ncols THEN ms
  ELSE mat_mult_j(mat_mult_k(Store(ms, prod, i, j, RZero), prod, m1, m2, i, j, 0),
                  prod, m1, m2, i, j + 1)

RECURSIVE mat_mult_i(_, _, _, _, _)
mat_mult_i(ms, prod, m1, m2, i) ==
  IF i >= ms[prod].nrows THEN ms
  ELSE mat_mult_i(mat_mult_j(ms, prod, m1, m2, i, 0), prod, m1, m2, i + 1)

mat_mult_assert(ms, prod, m1, m2) ==
  /\ ms[m1].ncols = ms[m2].nrows
  /\ ms[m1].nrows = ms[m2].ncols
  /\ ms[prod].nrows = ms[m1].nrows
  /\ ms[prod].ncols = ms[m2].ncols

mat_mult(prod, m1, m2) ==
  /\ outcome = "none"
  /\ LET c == [op |-> "mat_mult", prod |-> prod, m1 |-> m1, m2 |-> m2]
     IN  IF mat_mult_assert(mats, prod, m1, m2)
         THEN Done(c, mat_mult_i(mats, prod, m1, m2, 0))
         ELSE Aborts(c)

(***************************************************************************)
(* mat_plus_eq, mat_minus_eq                                               *)
(***************************************************************************)
RECURSIVE mat_plus_eq_j(_, _, _, _, _)
mat_plus_eq_j(ms, thism, addm, i, j) ==
  IF j >= ms[thism].ncols THEN ms
  ELSE mat_plus_eq_j(Store(ms, thism, i, j,
                           RAdd(ms[thism].data[i][j], ms[addm].data[i][j])),
                     thism, addm, i, j + 1)

RECURSIVE mat_plus_eq_i(_, _, _, _)
mat_plus_eq_i(ms, thism, addm, i) ==
  IF i >= ms[thism].nrows THEN ms
  ELSE mat_plus_eq_i(mat_plus_eq_j(ms, thism, addm, i, 0), thism, addm, i + 1)

\* the assert of mat_plus_eq with <= for ==: enough room to read, not the same shape
mat_plus_eq_assert_fits(ms, thism, addm) ==
  ms[thism].nrows <= ms[addm].nrows /\ ms[thism].ncols <= ms[addm].ncols

mat_plus_eq_assert(ms, thism, addm) == SameShape(ms, thism, addm)

mat_plus_eq(thism, addm) ==
  /\ outcome = "none"
  /\ LET c == [op |-> "mat_plus_eq", thism |-> thism, addm |-> addm]
     IN  IF mat_plus_eq_assert(mats, thism, addm)
         THEN Done(c, mat_plus_eq_i(mats, thism, addm, 0))
         ELSE Aborts(c)

RECURSIVE mat_minus_eq_j(_, _, _, _, _)
mat_minus_eq_j(ms, thism, subm, i, j) ==
  IF j >= ms[thism].ncols THEN ms
  ELSE mat_minus_eq_j(Store(ms, thism, i, j,
                            RSub(ms[thism].data[i][j], ms[subm].data[i][j])),
                      thism, subm, i, j + 1)

RECURSIVE mat_minus_eq_i(_, _, _, _)
mat_minus_eq_i(ms, thism, subm, i) ==
  IF i >= ms[thism].nrows THEN ms
  ELSE mat_minus_eq_i(mat_minus_eq_j(ms, thism, subm, i, 0), thism, subm, i + 1)

mat_minus_eq_assert(ms, thism, subm) == SameShape(ms, thism, subm)

mat_minus_eq(thism, subm) ==
  /\ outcome = "none"
  /\ LET c == [op |-> "mat_minus_eq", thism |-> thism, subm |-> subm]
     IN  IF mat_minus_eq_assert(mats, thism, subm)
         THEN Done(c, mat_minus_eq_i(mats, thism, subm, 0))
         ELSE Aborts(c)

(***************************************************************************)
(* mat_linear_comb                                                         *)
(***************************************************************************)
\* mat_linear_comb_j storing the first term before it reads the second
RECURSIVE mat_linear_comb_j_in_two_stores(_, _, _, _, _, _, _, _)
mat_linear_comb_j_in_two_stores(ms, dest, src1, coef1, src2, coef2, i, j) ==
  IF j >= ms[dest].ncols THEN ms
  ELSE LET first == Store(ms, dest, i, j, RMul(coef1, ms[src1].data[i][j]))
       IN  mat_linear_comb_j_in_two_stores(
             Store(first, dest, i, j,
                   RAdd(first[dest].data[i][j], RMul(coef2, first[src2].data[i][j]))),
             dest, src1, coef1, src2, coef2, i, j + 1)

RECURSIVE mat_linear_comb_j(_, _, _, _, _, _, _, _)
mat_linear_comb_j(ms, dest, src1, coef1, src2, coef2, i, j) ==
  IF j >= ms[dest].ncols THEN ms
  ELSE mat_linear_comb_j(Store(ms, dest, i, j,
                               RAdd(RMul(coef1, ms[src1].data[i][j]),
                                    RMul(coef2, ms[src2].data[i][j]))),
                         dest, src1, coef1, src2, coef2, i, j + 1)

RECURSIVE mat_linear_comb_i(_, _, _, _, _, _, _)
mat_linear_comb_i(ms, dest, src1, coef1, src2, coef2, i) ==
  IF i >= ms[dest].nrows THEN ms
  ELSE mat_linear_comb_i(mat_linear_comb_j(ms, dest, src1, coef1, src2, coef2, i, 0),
                         dest, src1, coef1, src2, coef2, i + 1)

mat_linear_comb_assert(ms, dest, src1, src2) ==
  SameShape(ms, dest, src1) /\ SameShape(ms, dest, src2)

mat_linear_comb(dest, src1, coef1, src2, coef2) ==
  /\ outcome = "none"
  /\ LET c == [op |-> "mat_linear_comb", dest |-> dest, src1 |-> src1, coef1 |-> coef1,
               src2 |-> src2, coef2 |-> coef2]
     IN  IF mat_linear_comb_assert(mats, dest, src1, src2)
         THEN Done(c, mat_linear_comb_i(mats, dest, src1, coef1, src2, coef2, 0))
         ELSE Aborts(c)

(***************************************************************************)
(* mat_mult_diag: A = B * diag(C) * D.  The loops run to C->size and index *)
(* all four objects; the assert makes every index in bounds.               *)
(***************************************************************************)
RECURSIVE mat_mult_diag_k(_, _, _, _, _, _, _, _)
mat_mult_diag_k(ms, A, B, Cv, D, i, j, k) ==
  IF k >= Cv.size THEN ms
  ELSE mat_mult_diag_k(Store(ms, A, i, j,
                             RAdd(ms[A].data[i][j],
                                  RMul(RMul(ms[B].data[i][k], Cv.data[k]),
                                       ms[D].data[k][j]))),
                       A, B, Cv, D, i, j, k + 1)

\* mat_mult_diag_j without A->data[i][j] = 0
RECURSIVE mat_mult_diag_j_unzeroed(_, _, _, _, _, _, _)
mat_mult_diag_j_unzeroed(ms, A, B, Cv, D, i, j) ==
  IF j >= Cv.size THEN ms
  ELSE mat_mult_diag_j_unzeroed(mat_mult_diag_k(ms, A, B, Cv, D, i, j, 0),
                                A, B, Cv, D, i, j + 1)

RECURSIVE mat_mult_diag_j(_, _, _, _, _, _, _)
mat_mult_diag_j(ms, A, B, Cv, D, i, j) ==
  IF j >= Cv.size THEN ms
  ELSE mat_mult_diag_j(mat_mult_diag_k(Store(ms, A, i, j, RZero), A, B, Cv, D, i, j, 0),
                       A, B, Cv, D, i, j + 1)

RECURSIVE mat_mult_diag_i(_, _, _, _, _, _)
mat_mult_diag_i(ms, A, B, Cv, D, i) ==
  IF i >= Cv.size THEN ms
  ELSE mat_mult_diag_i(mat_mult_diag_j(ms, A, B, Cv, D, i, 0), A, B, Cv, D, i + 1)

mat_mult_diag_assert(ms, vs, A, B, C, D) ==
  /\ ms[A].nrows = ms[A].ncols
  /\ ms[A].nrows = ms[B].nrows
  /\ ms[B].nrows = ms[B].ncols
  /\ ms[B].nrows = vs[C].size
  /\ vs[C].size = ms[D].nrows
  /\ ms[D].nrows = ms[D].ncols

mat_mult_diag(A, B, C, D) ==
  /\ outcome = "none"
  /\ LET c == [op |-> "mat_mult_diag", A |-> A, B |-> B, C |-> C, D |-> D]
     IN  IF mat_mult_diag_assert(mats, vecs, A, B, C, D)
         THEN Done(c, mat_mult_diag_i(mats, A, B, vecs[C], D, 0))
         ELSE Aborts(c)

(***************************************************************************)
(* mat_vec_mult.  The inner loop indexes v by the column number; an index  *)
(* at or beyond v->size reads past the vector's buffer, which is undefined *)
(* behaviour: the read yields an arbitrary double (junk), or the process   *)
(* dies of a memory fault.  Every such access is recorded in oob.          *)
(***************************************************************************)
JunkValues == {RI(0), RI(5)}

Access(id, i, kind) == [obj |-> id, idx |-> i, kind |-> kind]

\* v->data[i], as an rvalue
VLoad(st, id, i, junk) == IF i < st.vs[id].size THEN st.vs[id].data[i] ELSE junk

VLoadOob(st, id, i) ==
  IF i < st.vs[id].size THEN st.oob ELSE st.oob \cup {Access(id, i, "read")}

\* v->data[i] = val, bounds recorded
VWrite(st, id, i, val) ==
  IF i < st.vs[id].size
  THEN [st EXCEPT !.vs = VStore(st.vs, id, i, val)]
  ELSE [st EXCEPT !.oob = st.oob \cup {Access(id, i, "write")}]

RECURSIVE mat_vec_mult_j(_, _, _, _, _, _, _)
mat_vec_mult_j(st, prod, M, v, i, j, junk) ==
  IF j >= M.ncols THEN st
  ELSE LET rd == [st EXCEPT !.oob = VLoadOob(st, prod, i) \cup VLoadOob(st, v, j)]
           sum == RAdd(VLoad(st, prod, i, junk),
                       RMul(M.data[i][j], VLoad(st, v, j, junk)))
       IN  mat_vec_mult_j(VWrite(rd, prod, i, sum), prod, M, v, i, j + 1, junk)

RECURSIVE mat_vec_mult_i(_, _, _, _, _, _)
mat_vec_mult_i(st, prod, M, v, i, junk) ==
  IF i >= M.nrows THEN st
  ELSE mat_vec_mult_i(mat_vec_mult_j(VWrite(st, prod, i, RZero), prod, M, v, i, 0, junk),
                      prod, M, v, i + 1, junk)

mat_vec_mult_assert(ms, vs, prod, m, v) ==
  ms[m].nrows = vs[v].size /\ vs[v].size = vs[prod].size

Crashes(c, ob) ==
  /\ outcome = "none"
  /\ call' = c
  /\ mats0' = mats
  /\ vecs0' = vecs
  /\ outcome' = "crashed"
  /\ oob' = ob
  /\ UNCHANGED <<mats, vecs, ret, backend, stderr, outfile, heapvars, stream, mainvars>>

mat_vec_mult(prod, m, v) ==
  /\ outcome = "none"
  /\ LET c == [op |-> "mat_vec_mult", prod |-> prod, m |-> m, v |-> v]
     IN  IF mat_vec_mult_assert(mats, vecs, prod, m, v)
         THEN \E junk \in JunkValues :
                LET st == mat_vec_mult_i([vs |-> vecs, oob |-> {}], prod, mats[m], v, 0, junk)
                IN  \/ Returns(c, mats, st.vs, ret, backend, stderr, st.oob)
                    \/ st.oob # {} /\ Crashes(c, st.oob)
         ELSE Aborts(c)

(***************************************************************************)
(* The factorization backend (LAPACK's dgetrf_ and dgetri_).  It is handed *)
(* a flat buffer of n*n doubles and reads it in column-major order:        *)
(* element (r, c) is buf[c*n + r].  dgetrf_ reports 0, or i > 0 when the   *)
(* matrix is singular, or -k when its k-th argument is illegal; dgetri_    *)
(* reports likewise and on 0 leaves the inverse in the buffer.             *)
(***************************************************************************)
ColMajor(buf, n) == [r \in 0..(n - 1) |-> [c \in 0..(n - 1) |-> buf[c * n + r]]]

ToColMajor(A, n) == [x \in 0..(n * n - 1) |-> A[x % n][x \div n]]

Minor(A, n, r, c) ==
  [i \in 0..(n - 2) |-> [j \in 0..(n - 2) |->
     A[IF i < r THEN i ELSE i + 1][IF j < c THEN j ELSE j + 1]]]

Sign(k) == IF k % 2 = 0 THEN ROne ELSE RI(-1)

RECURSIVE Det(_, _)
RECURSIVE DetSum(_, _, _)
DetSum(A, n, c) ==
  IF c >= n THEN RZero
  ELSE RAdd(RMul(RMul(Sign(c), A[0][c]), Det(Minor(A, n, 0, c), n - 1)),
            DetSum(A, n, c + 1))

Det(A, n) == IF n = 0 THEN ROne ELSE IF n = 1 THEN A[0][0] ELSE DetSum(A, n, 0)

Inverse(A, n) ==
  LET d == Det(A, n)
  IN  [i \in 0..(n - 1) |-> [j \in 0..(n - 1) |->
         RDiv(RMul(Sign(i + j), Det(Minor(A, n, j, i), n - 1)), d)]]

IllegalStatuses == {-4, -1}

dgetrf_info(buf, n) ==
  (IF Det(ColMajor(buf, n), n) = RZero THEN 1..n ELSE {0}) \cup IllegalStatuses

dgetri_info(buf, n) ==
  (IF Det(ColMajor(buf, n), n) = RZero THEN 1..n ELSE 0..n) \cup IllegalStatuses

\* What a backend call leaves in the buffer.  The LU factors that dgetrf_ leaves
\* are read by dgetri_ alone, so they stand for the matrix they factor; after a
\* failed call the contents do not matter to the caller and are left as they were.
dgetrf_(buf, n, info) == buf

dgetri_(buf, n, info) ==
  IF info = 0 THEN ToColMajor(Inverse(ColMajor(buf, n), n), n) ELSE buf

BackendCall(fn, buf, info, out) == [fn |-> fn, a |-> buf, info |-> info, out |-> out]

(***************************************************************************)
(* mat_invert.  tmp is the C array double tmp[n][n], laid out row by row:  *)
(* tmp[i][j] is cell i*n + j of the buffer handed to the backend.          *)
(***************************************************************************)
\* mat_invert_in without the transposition: tmp[i][j] = mat_get(M, i, j)
mat_invert_in_untransposed(M, n) == [x \in 0..(n * n - 1) |-> M.data[x \div n][x % n]]

\* lines 251-253: tmp[i][j] = mat_get(M, j, i)
mat_invert_in(M, n) == [x \in 0..(n * n - 1) |-> M.data[x % n][x \div n]]

\* lines 272-274: mat_set(M_inv, i, j, tmp[j][i])
mat_invert_out(ms, M_inv, tmp, n) ==
  [ms EXCEPT ![M_inv].data = [i \in 0..(n - 1) |-> [j \in 0..(n - 1) |-> tmp[j * n + i]]]]

mat_invert_assert(ms, M_inv, M) ==
  /\ ms[M].nrows = ms[M].ncols
  /\ ms[M_inv].nrows = ms[M_inv].ncols
  /\ ms[M].nrows = ms[M_inv].nrows

\* line 257 testing info > 0: an illegal-argument status passes for success
mat_invert_lu_failed_positive(info) == info > 0

\* line 257
mat_invert_lu_failed(info) == info # 0

\* line 258
mat_invert_lu_msg(info) ==
  [text |-> "ERROR: unable to compute LU factorization of matrix (for matrix inversion); dgetrf returned value of %d.",
   arg |-> <<info>>]

\* line 264
mat_invert_inv_failed(info) == info # 0

\* lines 265-268 with the test inverted
mat_invert_inv_msg_swapped(info) ==
  IF info < 0
  THEN [text |-> "ERROR: matrix is singular -- cannot invert.", arg |-> <<>>]
  ELSE [text |-> "ERROR: unable to invert matrix.  Element %d had an illegal value (according to dgetri).",
        arg |-> <<info>>]

\* lines 265-268
mat_invert_inv_msg(info) ==
  IF info > 0
  THEN [text |-> "ERROR: matrix is singular -- cannot invert.", arg |-> <<>>]
  ELSE [text |-> "ERROR: unable to invert matrix.  Element %d had an illegal value (according to dgetri).",
        arg |-> <<info>>]

mat_invert(M_inv, M) ==
  /\ outcome = "none"
  /\ LET c == [op |-> "mat_invert", M_inv |-> M_inv, M |-> M]
         n == mats[M].nrows
         tmp == mat_invert_in(mats[M], n)
     IN  IF mat_invert_assert(mats, M_inv, M)
         THEN \E info1 \in dgetrf_info(tmp, n) :
                LET lu == dgetrf_(tmp, n, info1)
                    be1 == <<BackendCall("dgetrf_", tmp, info1, lu)>>
                IN  IF mat_invert_lu_failed(info1)
                    THEN Returns(c, mats, vecs, 1, be1,
                                 Append(stderr, mat_invert_lu_msg(info1)), oob)
                    ELSE \E info2 \in dgetri_info(lu, n) :
                           LET inv == dgetri_(lu, n, info2)
                               be2 == Append(be1, BackendCall("dgetri_", lu, info2, inv))
                           IN  IF mat_invert_inv_failed(info2)
                               THEN Returns(c, mats, vecs, 1, be2,
                                            Append(stderr, mat_invert_inv_msg(info2)), oob)
                               ELSE Returns(c, mat_invert_out(mats, M_inv, inv, n),
                                            vecs, 0, be2, stderr, oob)
         ELSE Aborts(c)

(***************************************************************************)
(* The caller.  It holds three matrices and two vectors of arbitrary small *)
(* shapes, filled with known values, and makes one library call.           *)
(***************************************************************************)
FromRows(rows) ==
  Matrix(Len(rows), Len(rows[1]),
         [i \in 0..(Len(rows) - 1) |->
           [j \in 0..(Len(rows[1]) - 1) |-> RI(rows[i + 1][j + 1])]])

Examples ==
  { FromRows(<<<<4, 7>>, <<2, 6>>>>),      \* the specification's inversion example
    FromRows(<<<<1, 2>>, <<1, 2>>>>),      \* a duplicated row
    FromRows(<<<<0, 0>>, <<0, 0>>>>),      \* all zero
    FromRows(<<<<0, 1>>, <<1, 0>>>>) }     \* needs a pivot exchange

NoCall == [op |-> "none"]

InitCall ==
  /\ mats0 = mats
  /\ vecs0 = vecs
  /\ call = NoCall
  /\ outcome = "none"
  /\ ret = 0
  /\ backend = <<>>
  /\ stderr = <<>>
  /\ oob = {}
  /\ outfile = <<>>

\* No storage call has been made.
InitHeap ==
  /\ heap = <<>>
  /\ mtx = [self |-> <<"null", 0>>, data |-> <<"null", 0>>, nrows |-> 0, ncols |-> 0]
  /\ hpc = "start"
  /\ faults = {}
  /\ hist = [op |-> "none"]
  /\ nresize = 0

\* No stream is open.
InitStream == stream = <<>>

\* phyloBoot is not running.
InitMain ==
  /\ argv = <<>>
  /\ optind = 1
  /\ nreps = 100
  /\ input_mods = <<"null", 0>>
  /\ do_estimates = TRUE
  /\ quiet = FALSE
  /\ pc = "idle"
  /\ diemsg = ""
  /\ rep = 0
  /\ nparams = -1

InitPattern ==
  \E seed \in Seeds, shape \in [MatIds -> Dims \X Dims], size \in [VecIds -> Dims] :
    /\ mats = [id \in MatIds |-> Fill(seed + Offset(id), shape[id][1], shape[id][2])]
    /\ vecs = [id \in VecIds |-> VFill(seed + Offset(id), size[id])]

InitExample ==
  \E ex \in Examples, seed \in Seeds :
    /\ mats = [id \in MatIds |-> IF id = "a" THEN ex ELSE Fill(seed + Offset(id), 2, 2)]
    /\ vecs = [id \in VecIds |-> VFill(seed + Offset(id), 2)]

Init == (InitPattern \/ InitExample) /\ InitCall /\ InitHeap /\ InitStream /\ InitMain

CoefPairs == {<<RI(2), RI(-1)>>, <<RI(1), Rat(1, 2)>>}

\* The caller's objects are filled alike whatever their names, so the first source
\* operand of a call is always a.  The element-wise operations and mat_invert are
\* also called with one object in two argument positions; the products are called
\* with a destination that is none of the sources.
Next ==
  \/ \E dest, src \in MatIds : mat_copy(dest, src)
  \/ \E prod \in MatIds \ {"a"} : \E m2 \in MatIds \ {prod} : mat_mult(prod, "a", m2)
  \/ \E prod \in VecIds : \E v \in VecIds \ {prod} : mat_vec_mult(prod, "a", v)
  \/ \E thism, addm \in MatIds : mat_plus_eq(thism, addm)
  \/ \E thism, subm \in MatIds : mat_minus_eq(thism, subm)
  \/ \E dest, src2 \in MatIds, coefs \in CoefPairs :
       mat_linear_comb(dest, "a", coefs[1], src2, coefs[2])
  \/ \E A \in MatIds \ {"a"}, C \in VecIds : \E D \in MatIds \ {A} :
       mat_mult_diag(A, "a", C, D)
  \/ \E M_inv \in MatIds : mat_invert(M_inv, "a")

Spec == Init /\ [][Next]_vars

(***************************************************************************)
(* What the claims are stated with.                                        *)
(***************************************************************************)
Called(op) == call.op = op

Cells(M) == (0..(M.nrows - 1)) \X (0..(M.ncols - 1))

\* The sum over k < n of A[i][k] * B[k][j].
RECURSIVE Dot(_, _, _, _, _)
Dot(A, B, i, j, n) ==
  IF n = 0 THEN RZero
  ELSE RAdd(Dot(A, B, i, j, n - 1), RMul(A.data[i][n - 1], B.data[n - 1][j]))

\* The sum over k < n of M[i][k] * v[k].
RECURSIVE VDot(_, _, _, _)
VDot(M, v, i, n) ==
  IF n = 0 THEN RZero
  ELSE RAdd(VDot(M, v, i, n - 1), RMul(M.data[i][n - 1], v.data[n - 1]))

\* The sum over k < n of B[i][k] * d[k] * D[k][j].
RECURSIVE Dot3(_, _, _, _, _, _)
Dot3(B, d, D, i, j, n) ==
  IF n = 0 THEN RZero
  ELSE RAdd(Dot3(B, d, D, i, j, n - 1),
            RMul(RMul(B.data[i][n - 1], d.data[n - 1]), D.data[n - 1][j]))

IdentityData(n) == [i \in 0..(n - 1) |-> [j \in 0..(n - 1) |-> IF i = j THEN ROne ELSE RZero]]

\* diag(d): the explicit matrix with d on the diagonal and zeros elsewhere.
Diag(d) ==
  Matrix(d.size, d.size,
         [i \in 0..(d.size - 1) |-> [j \in 0..(d.size - 1) |->
            IF i = j THEN d.data[i] ELSE RZero]])

\* multiply(X, Y) as mat_mult computes it, into a fresh destination of the right
\* shape (whose cells hold some leftover value).
Multiply(X, Y) ==
  mat_mult_i([p |-> Fill(2, X.nrows, Y.ncols), x |-> X, y |-> Y], "p", "x", "y", 0)["p"]

(***************************************************************************)
(* C1.  multiply(prod, a, b) accepts every triple of distinct matrices     *)
(* with a.ncols = b.nrows, prod.nrows = a.nrows and prod.ncols = b.ncols,  *)
(* non-square a and b included, and completes with                         *)
(* prod[i][j] = sum over k < a.ncols of a[i][k] * b[k][j] in every cell.   *)
(* The code asserts a.nrows = b.ncols as well, so this fails.              *)
(***************************************************************************)
MultiplyPre(ms, prod, m1, m2) ==
  /\ ms[m1].ncols = ms[m2].nrows
  /\ ms[prod].nrows = ms[m1].nrows
  /\ ms[prod].ncols = ms[m2].ncols

C1_MultiplyAcceptsConformingShapes ==
  (Called("mat_mult") /\ MultiplyPre(mats0, call.prod, call.m1, call.m2)) =>
    /\ outcome = "returned"
    /\ \A x \in Cells(mats[call.prod]) :
         mats[call.prod].data[x[1]][x[2]] =
           Dot(mats0[call.m1], mats0[call.m2], x[1], x[2], mats0[call.m1].ncols)

(***************************************************************************)
(* C2.  vector_multiply(prod, m, v) with m.nrows = v.size = prod.size (m   *)
(* not necessarily square, prod and v distinct) writes                     *)
(* prod[i] = sum over j < m.ncols of m[i][j] * v[j] for every i, and every *)
(* index it reads in v or writes in prod is within the vector.  The inner  *)
(* loop indexes v up to m.ncols, so this fails when m.ncols > v.size.      *)
(***************************************************************************)
C2_VectorMultiplyStaysInBounds ==
  (Called("mat_vec_mult")
     /\ mats0[call.m].nrows = vecs0[call.v].size
     /\ vecs0[call.v].size = vecs0[call.prod].size) =>
    /\ outcome = "returned"
    /\ oob = {}
    /\ \A i \in 0..(mats0[call.m].nrows - 1) :
         vecs[call.prod].data[i] =
           VDot(mats0[call.m], vecs0[call.v], i, mats0[call.m].ncols)

(***************************************************************************)
(* C3.  invert(dest, src) bridges row-major to column-major: the buffer    *)
(* handed to the backend, read in column-major order, is src; dest[i][j]   *)
(* is the column-major element (i, j) of the buffer the backend returns;   *)
(* and so, the backend inverting its buffer exactly, a successful invert   *)
(* leaves multiply(dest, src) = multiply(src, dest) = the identity.        *)
(***************************************************************************)
C3_InvertBridgesLayouts ==
  (Called("mat_invert") /\ outcome = "returned" /\ ret = 0) =>
    LET src == mats0[call.M]
        dest == mats[call.M_inv]
        n == src.nrows
    IN  /\ \A k \in DOMAIN backend : ColMajor(backend[k].a, n) = src.data
        /\ dest.data = ColMajor(backend[Len(backend)].out, n)
        /\ Multiply(dest, src).data = IdentityData(n)
        /\ Multiply(src, dest).data = IdentityData(n)

\* The specification's example: [[4,7],[2,6]] inverts to [[0.6,-0.7],[-0.2,0.4]].
C3_Witness ==
  /\ Called("mat_invert") /\ outcome = "returned" /\ ret = 0
  /\ call.M_inv # call.M
  /\ mats0[call.M] = FromRows(<<<<4, 7>>, <<2, 6>>>>)
  /\ mats[call.M_inv].data =
       (0 :> (0 :> Rat(6, 10) @@ 1 :> Rat(-7, 10)) @@
        1 :> (0 :> Rat(-2, 10) @@ 1 :> Rat(4, 10)))

(***************************************************************************)
(* C4.  invert on a square src with a dest of the same order returns 1 if  *)
(* and only if the factorization call or the inverse-from-factors call     *)
(* reports a non-zero status, and 0 otherwise; when it returns 1 no        *)
(* element of dest has been written; and the inverse-from-factors call is  *)
(* never made after a failed factorization.                                *)
(***************************************************************************)
C4_InvertFailureIsClean ==
  (Called("mat_invert") /\ mat_invert_assert(mats0, call.M_inv, call.M)) =>
    /\ outcome = "returned"
    /\ ret \in {0, 1}
    /\ ret = 1 <=> \E k \in DOMAIN backend : backend[k].info # 0
    /\ ret = 1 => mats = mats0
    /\ Len(backend) \in {1, 2}
    /\ backend[1].fn = "dgetrf_"
    /\ Len(backend) = 2 => backend[2].fn = "dgetri_" /\ backend[1].info = 0

\* A factorization that reports an illegal argument, on a matrix that could be inverted.
C4_Witness ==
  /\ Called("mat_invert") /\ outcome = "returned" /\ ret = 1
  /\ Len(backend) = 1 /\ backend[1].info < 0
  /\ Det(mats0[call.M].data, mats0[call.M].nrows) # RZero

(***************************************************************************)
(* C5.  As claimed: every failed invert writes a diagnostic identifying    *)
(* its cause: the "singular -- cannot invert" message whenever the backend *)
(* reports a positive status, from either call, and the illegal-argument   *)
(* message naming position k whenever it reports -k, from either call.     *)
(* This fails: a failed factorization has a message of its own.            *)
(***************************************************************************)
SingularText == "ERROR: matrix is singular -- cannot invert."

IllegalText ==
  "ERROR: unable to invert matrix.  Element %d had an illegal value (according to dgetri)."

LuText ==
  "ERROR: unable to compute LU factorization of matrix (for matrix inversion); dgetrf returned value of %d."

FailedInvert == Called("mat_invert") /\ outcome = "returned" /\ ret = 1

\* The backend call that failed, the last one made.
FailedCall == backend[Len(backend)]

C5_DiagnosticBySignOfStatus ==
  FailedInvert =>
    /\ Len(stderr) = 1
    /\ FailedCall.info > 0 => stderr[1] = [text |-> SingularText, arg |-> <<>>]
    /\ FailedCall.info < 0 =>
         /\ stderr[1].text = IllegalText
         /\ Abs(stderr[1].arg[1]) = -FailedCall.info

(***************************************************************************)
(* C5, amended.  Every failed invert writes exactly one diagnostic, which  *)
(* identifies its cause: a non-zero status s of the factorization call     *)
(* gives the LU-factorization message carrying s, whatever its sign; a     *)
(* positive status of the inverse-from-factors call gives the "singular -- *)
(* cannot invert" message; a negative status -k of that call gives the     *)
(* illegal-argument message carrying the status -k itself; so the call     *)
(* that failed and the sign of its status can be told from the message.    *)
(***************************************************************************)
\* The cause a message tells: the call, and the sign of its status.
CauseTold(msg) ==
  CASE msg.text = LuText -> <<"dgetrf_", msg.arg[1] > 0>>
    [] msg.text = SingularText -> <<"dgetri_", TRUE>>
    [] msg.text = IllegalText -> <<"dgetri_", FALSE>>
    [] OTHER -> <<"unknown", FALSE>>

C5_DiagnosticByCallAndStatus ==
  FailedInvert =>
    /\ Len(stderr) = 1
    /\ FailedCall.fn = "dgetrf_" =>
         stderr[1] = [text |-> LuText, arg |-> <<FailedCall.info>>]
    /\ (FailedCall.fn = "dgetri_" /\ FailedCall.info > 0) =>
         stderr[1] = [text |-> SingularText, arg |-> <<>>]
    /\ (FailedCall.fn = "dgetri_" /\ FailedCall.info < 0) =>
         stderr[1] = [text |-> IllegalText, arg |-> <<FailedCall.info>>]
    /\ CauseTold(stderr[1]) = <<FailedCall.fn, FailedCall.info > 0>>

\* The factorization finds a singular matrix singular.
C5_Witness ==
  /\ FailedInvert
  /\ FailedCall.fn = "dgetrf_" /\ FailedCall.info > 0
  /\ Det(mats0[call.M].data, mats0[call.M].nrows) = RZero
  /\ stderr[1].text = LuText

(***************************************************************************)
(* C8.  diagonal_triple_product(result, B, d, D), for square B, D, result  *)
(* of one order n, a vector d of size n, and a result that is neither B    *)
(* nor D, yields result[i][j] = sum over k of B[i][k] * d[k] * D[k][j],    *)
(* which is multiply(multiply(B, diag(d)), D) element by element; what     *)
(* result held before does not matter.                                     *)
(***************************************************************************)
C8_DiagonalTripleProduct ==
  (Called("mat_mult_diag") /\ outcome = "returned") =>
    LET B == mats0[call.B]
        d == vecs0[call.C]
        D == mats0[call.D]
        result == mats[call.A]
    IN  /\ \A x \in Cells(result) :
             result.data[x[1]][x[2]] = Dot3(B, d, D, x[1], x[2], d.size)
        /\ result.data = Multiply(Multiply(B, Diag(d)), D).data

C8_Witness ==
  /\ Called("mat_mult_diag") /\ outcome = "returned"
  /\ vecs0[call.C].size = MaxDim
  /\ mats[call.A] # mats0[call.A]
  /\ \E x \in Cells(mats[call.A]) :
       /\ mats[call.A].data[x[1]][x[2]] # RZero
       /\ mats0[call.A].data[x[1]][x[2]] # RZero

(***************************************************************************)
(* C9.  For each of copy, multiply, vector_multiply, add_in_place,         *)
(* subtract_in_place, linear_combination, diagonal_triple_product and      *)
(* invert: a call whose shape precondition does not hold ends in a failed  *)
(* assertion, and no element of any argument has been written.             *)
(***************************************************************************)
ShapePre(c) ==
  CASE c.op = "mat_copy" -> SameShape(mats0, c.dest, c.src)
    [] c.op = "mat_mult" -> MultiplyPre(mats0, c.prod, c.m1, c.m2)
    [] c.op = "mat_vec_mult" ->
         /\ mats0[c.m].nrows = vecs0[c.v].size
         /\ vecs0[c.v].size = vecs0[c.prod].size
    [] c.op = "mat_plus_eq" -> SameShape(mats0, c.thism, c.addm)
    [] c.op = "mat_minus_eq" -> SameShape(mats0, c.thism, c.subm)
    [] c.op = "mat_linear_comb" ->
         SameShape(mats0, c.dest, c.src1) /\ SameShape(mats0, c.dest, c.src2)
    [] c.op = "mat_mult_diag" ->
         \E n \in Dims :
           /\ \A id \in {c.A, c.B, c.D} : mats0[id].nrows = n /\ mats0[id].ncols = n
           /\ vecs0[c.C].size = n
    [] c.op = "mat_invert" ->
         \E n \in Dims :
           \A id \in {c.M_inv, c.M} : mats0[id].nrows = n /\ mats0[id].ncols = n

CheckedOps ==
  {"mat_copy", "mat_mult", "mat_vec_mult", "mat_plus_eq", "mat_minus_eq",
   "mat_linear_comb", "mat_mult_diag", "mat_invert"}

C9_MismatchAbortsBeforeAnyWrite ==
  (call.op \in CheckedOps /\ ~ShapePre(call)) =>
    /\ outcome = "aborted"
    /\ mats = mats0
    /\ vecs = vecs0

\* A destination with more columns than the source, in an in-place addition.
C9_Witness ==
  /\ Called("mat_plus_eq") /\ ~ShapePre(call) /\ outcome = "aborted"
  /\ mats0[call.thism].nrows = mats0[call.addm].nrows
  /\ mats0[call.thism].ncols < mats0[call.addm].ncols

(***************************************************************************)
(* Storage.  The heap is a sequence of blocks; a block's address is its    *)
(* index, and an address is never handed out twice.  A pointer is          *)
(* <<"ptr", address>>, NULL, WILD (a value that is the address of no       *)
(* block) or UNINIT (a pointer cell that was never assigned: its value is  *)
(* indeterminate, and is settled when the cell is read).  A double cell    *)
(* that was never assigned holds Indeterminate.                            *)
(***************************************************************************)
MaxResizes == 2

Ptr(a) == <<"ptr", a>>

NULL == <<"null", 0>>

WILD == <<"wild", 0>>

UNINIT == <<"uninit", 0>>

Indeterminate == <<0, 0>>

Block(kind, n, init) ==
  [kind |-> kind, live |-> TRUE, frees |-> 0, cells |-> [i \in 0..(n - 1) |-> init]]

IsLive(h, p) == p[1] = "ptr" /\ p[2] \in DOMAIN h /\ h[p[2]].live

\* The state threaded through a storage call: the heap, the invalid uses made, whether
\* the call is still running (ok), and the pointer the last allocation returned.
Storage(h) == [heap |-> h, faults |-> {}, ok |-> TRUE, ret |-> NULL]

Fault(st, fn, p) ==
  [st EXCEPT !.faults = @ \cup {[fn |-> fn, ptr |-> p]}, !.ok = FALSE]

\* smalloc(n * sizeof(...)): a new block, its cells unassigned
smalloc(st, kind, n, init) ==
  [st EXCEPT !.heap = Append(@, Block(kind, n, init)), !.ret = Ptr(Len(st.heap) + 1)]

\* free(p).  Releasing what is not a live block is undefined behaviour: the call
\* goes no further.
free(st, p) ==
  IF ~st.ok THEN st
  ELSE IF IsLive(st.heap, p)
       THEN [st EXCEPT !.heap[p[2]].live = FALSE, !.heap[p[2]].frees = @ + 1]
       ELSE Fault(st, "free", p)

\* srealloc(p, n * sizeof(...)): a new block for NULL; the block of p resized where
\* it is, its first cells kept, for a live block of that kind; undefined behaviour
\* for anything else.
srealloc(st, p, kind, n, init) ==
  IF ~st.ok THEN st
  ELSE IF p = NULL THEN smalloc(st, kind, n, init)
  ELSE IF IsLive(st.heap, p) /\ st.heap[p[2]].kind = kind
       THEN [st EXCEPT !.heap[p[2]].cells =
                         [i \in 0..(n - 1) |->
                            IF i \in DOMAIN st.heap[p[2]].cells
                            THEN st.heap[p[2]].cells[i] ELSE init],
                       !.ret = p]
       ELSE Fault(st, "srealloc", p)

\* block[i] = val
Poke(st, p, i, val) == IF ~st.ok THEN st ELSE [st EXCEPT !.heap[p[2]].cells[i] = val]

\* m->data[i]
RowPtr(h, mx, i) == h[mx.data[2]].cells[i]

(***************************************************************************)
(* mat_new, mat_new_from_array                                             *)
(***************************************************************************)
RECURSIVE mat_new_i(_, _, _, _, _)
mat_new_i(st, data, nrows, ncols, i) ==
  IF i >= nrows THEN st
  ELSE LET row == smalloc(st, "row", ncols, Indeterminate)
       IN  mat_new_i(Poke(row, data, i, row.ret), data, nrows, ncols, i + 1)

\* The heap after mat_new, and the Matrix it returns.
mat_new_alloc(h, nrows, ncols) ==
  LET self == smalloc(Storage(h), "struct", 0, NULL)
      data == smalloc(self, "table", nrows, UNINIT)
      rows == mat_new_i(data, data.ret, nrows, ncols, 0)
  IN  [heap |-> rows.heap,
       mtx |-> [self |-> self.ret, data |-> data.ret, nrows |-> nrows, ncols |-> ncols]]

StorageCall(op, nrows, ncols) ==
  [op |-> op, nrows |-> nrows, ncols |-> ncols, heap |-> heap, mtx |-> mtx]

mat_new(nrows, ncols) ==
  /\ hpc = "start"
  /\ LET new == mat_new_alloc(heap, nrows, ncols)
     IN  heap' = new.heap /\ mtx' = new.mtx
  /\ hpc' = "live"
  /\ hist' = StorageCall("mat_new", nrows, ncols)
  /\ UNCHANGED <<faults, nresize, callvars, outfile, stream, mainvars>>

mat_new_from_array(array, nrows, ncols) ==
  /\ hpc = "start"
  /\ LET new == mat_new_alloc(heap, nrows, ncols)
     IN  /\ heap' = [a \in DOMAIN new.heap |->
                      IF new.heap[a].kind = "row"
                      THEN LET i == CHOOSE r \in 0..(nrows - 1) : RowPtr(new.heap, new.mtx, r) = Ptr(a)
                           IN  [new.heap[a] EXCEPT !.cells = [j \in 0..(ncols - 1) |-> array[i][j]]]
                      ELSE new.heap[a]]
         /\ mtx' = new.mtx
  /\ hpc' = "live"
  /\ hist' = StorageCall("mat_new_from_array", nrows, ncols)
  /\ UNCHANGED <<faults, nresize, callvars, outfile, stream, mainvars>>

(***************************************************************************)
(* mat_free                                                                *)
(***************************************************************************)
RECURSIVE mat_free_i(_, _, _)
mat_free_i(st, mx, i) ==
  IF i >= mx.nrows \/ ~st.ok THEN st
  ELSE mat_free_i(free(st, RowPtr(st.heap, mx, i)), mx, i + 1)

mat_free ==
  /\ hpc = "live"
  /\ LET rows == mat_free_i(Storage(heap), mtx, 0)
         done == free(free(rows, mtx.data), mtx.self)
     IN  /\ heap' = done.heap
         /\ faults' = faults \cup done.faults
         /\ hpc' = IF done.ok THEN "freed" ELSE "fault"
  /\ hist' = StorageCall("mat_free", mtx.nrows, mtx.ncols)
  /\ UNCHANGED <<mtx, nresize, callvars, outfile, stream, mainvars>>

(***************************************************************************)
(* mat_resize.  srealloc leaves the cells it adds to the table unassigned, *)
(* and the second loop passes every cell below nrows to srealloc: for a    *)
(* row added by the call that is an indeterminate pointer.  garbage[i] is  *)
(* the value the read of such a cell i yields.                             *)
(***************************************************************************)
\* line 226
RECURSIVE mat_resize_free(_, _, _)
mat_resize_free(st, mx, i) ==
  IF i >= mx.nrows \/ ~st.ok THEN st
  ELSE mat_resize_free(free(st, RowPtr(st.heap, mx, i)), mx, i + 1)

\* lines 228-229
RECURSIVE mat_resize_rows(_, _, _, _, _, _)
mat_resize_rows(st, data, nrows, ncols, garbage, i) ==
  IF i >= nrows \/ ~st.ok THEN st
  ELSE LET cell == st.heap[data[2]].cells[i]
           p == IF cell = UNINIT THEN garbage[i] ELSE cell
           read == IF cell = UNINIT
                   THEN [st EXCEPT !.faults = @ \cup {[fn |-> "read", ptr |-> UNINIT]}]
                   ELSE st
           row == srealloc(read, p, "row", ncols, Indeterminate)
       IN  mat_resize_rows(Poke(row, data, i, row.ret), data, nrows, ncols, garbage, i + 1)

\* The values an indeterminate pointer may turn out to have.
PtrValues(h) == {NULL, WILD} \cup {Ptr(a) : a \in DOMAIN h}

mat_resize(nrows, ncols) ==
  /\ hpc = "live"
  /\ nresize < MaxResizes
  /\ \E garbage \in [mtx.nrows..(nrows - 1) -> PtrValues(heap)] :
       LET freed == mat_resize_free(Storage(heap), mtx, nrows)
           table == srealloc(freed, mtx.data, "table", nrows, UNINIT)
           rows == mat_resize_rows(table, table.ret, nrows, ncols, garbage, 0)
       IN  /\ heap' = rows.heap
           /\ faults' = faults \cup rows.faults
           /\ hpc' = IF rows.ok THEN "live" ELSE "fault"
           /\ mtx' = IF rows.ok
                     THEN [mtx EXCEPT !.data = table.ret, !.nrows = nrows, !.ncols = ncols]
                     ELSE mtx
  /\ nresize' = nresize + 1
  /\ hist' = StorageCall("mat_resize", nrows, ncols)
  /\ UNCHANGED <<callvars, outfile, stream, mainvars>>

\* The caller's matrices and vectors when no arithmetic is under study.
InitIdle ==
  /\ mats = [id \in MatIds |-> Fill(Offset(id), 1, 1)]
  /\ vecs = [id \in VecIds |-> VFill(Offset(id), 1)]
  /\ InitCall

InitStorage == InitIdle /\ InitHeap /\ InitStream /\ InitMain

NextStorage ==
  \/ \E nrows, ncols \in Dims : mat_new(nrows, ncols)
  \/ \E nrows, ncols \in Dims, seed \in Seeds :
       mat_new_from_array(Fill(seed, nrows, ncols).data, nrows, ncols)
  \/ \E nrows, ncols \in Dims : mat_resize(nrows, ncols)
  \/ mat_free

SpecStorage == InitStorage /\ [][NextStorage]_vars

(***************************************************************************)
(* C6.  resize(m, r2, c2) from any shape r1 x c1 to any positive shape     *)
(* r2 x c2 leaves m with nrows = r2, ncols = c2 and exactly r2 owned row   *)
(* buffers of c2 elements each, and every cell (i, j) with i < min(r1, r2) *)
(* and j < min(c1, c2) holds the value it held before the call.  With      *)
(* r2 > r1 the rows added are reallocated from unassigned pointers, so     *)
(* this fails.                                                             *)
(***************************************************************************)
Min(a, b) == IF a < b THEN a ELSE b

\* m->data[i][j]
Cell(h, mx, i, j) == h[RowPtr(h, mx, i)[2]].cells[j]

\* m's table is a live block of nrows pointers, to nrows different live row buffers
\* of ncols cells each.
OwnsItsRows(h, mx) ==
  /\ IsLive(h, mx.data)
  /\ DOMAIN h[mx.data[2]].cells = 0..(mx.nrows - 1)
  /\ \A i \in 0..(mx.nrows - 1) :
       /\ IsLive(h, RowPtr(h, mx, i))
       /\ h[RowPtr(h, mx, i)[2]].kind = "row"
       /\ DOMAIN h[RowPtr(h, mx, i)[2]].cells = 0..(mx.ncols - 1)
  /\ \A i, k \in 0..(mx.nrows - 1) : i # k => RowPtr(h, mx, i) # RowPtr(h, mx, k)

C6_ResizeReshapesAndKeeps ==
  hist.op = "mat_resize" =>
    /\ hpc = "live"
    /\ mtx.nrows = hist.nrows /\ mtx.ncols = hist.ncols
    /\ OwnsItsRows(heap, mtx)
    /\ \A i \in 0..(Min(hist.mtx.nrows, hist.nrows) - 1) :
         \A j \in 0..(Min(hist.mtx.ncols, hist.ncols) - 1) :
           Cell(heap, mtx, i, j) = Cell(hist.heap, hist.mtx, i, j)

(***************************************************************************)
(* C7.  Over new(r, c), any number of resize calls and one final free,     *)
(* every block ever allocated (row buffers, table, structure) is released  *)
(* exactly once, and free and realloc are only ever applied to a pointer   *)
(* that is then an allocation the matrix owns, never to an unassigned or   *)
(* released one.  This fails with C6: a resize that adds rows reallocates  *)
(* unassigned pointers.                                                    *)
(***************************************************************************)
C7_EveryBlockReleasedOnce ==
  /\ faults = {}
  /\ hpc # "fault"
  /\ hpc = "freed" => \A a \in DOMAIN heap : ~heap[a].live /\ heap[a].frees = 1

(***************************************************************************)
(* mat_print.  A printed value is the conversion and the digits printf     *)
(* writes for it: for "%11.6f " the value rounded to a whole number of     *)
(* millionths, for "%14.6e " a mantissa of seven digits and a power of     *)
(* ten.  A line of the output is the sequence of values of one row.        *)
(***************************************************************************)
INFTY == 999999999

\* n / d rounded to the nearest integer, ties to even (d > 0)
Round(n, d) ==
  LET q == n \div d
      r == n - q * d
  IN  IF 2 * r > d \/ (2 * r = d /\ q % 2 = 1) THEN q + 1 ELSE q

\* y > 0 scaled by tens into [1, 10), with the power of ten taken out
RECURSIVE Normalise(_, _)
Normalise(y, e) ==
  IF ~RLess(y, RI(10)) THEN Normalise(RDiv(y, RI(10)), e + 1)
  ELSE IF RLess(y, ROne) THEN Normalise(RMul(y, RI(10)), e - 1)
  ELSE <<y, e>>

Fixed6(x) == [conv |-> "%11.6f ", digits |-> Round(x[1] * 1000000, x[2]), exp |-> 0]

Sci6(x) ==
  IF x = RZero THEN [conv |-> "%14.6e ", digits |-> 0, exp |-> 0]
  ELSE LET ye == Normalise(fabs(x), 0)
           mant == Round(ye[1][1] * 1000000, ye[1][2])
           sign == IF x[1] < 0 THEN -1 ELSE 1
       IN  IF mant = 10000000
           THEN [conv |-> "%14.6e ", digits |-> sign * 1000000, exp |-> ye[2] + 1]
           ELSE [conv |-> "%14.6e ", digits |-> sign * mant, exp |-> ye[2]]

\* fprintf(F, formatstr, x)
fprintf(formatstr, x) == IF formatstr = "%14.6e " THEN Sci6(x) ELSE Fixed6(x)

\* lines 147-148 without the test val != 0: a zero element becomes the minimum
mat_print_min_cell_any(min, x) ==
  LET val == fabs(x)
  IN  IF RLess(val, min) THEN val ELSE min

\* lines 147-148
mat_print_min_cell(min, x) ==
  LET val == fabs(x)
  IN  IF val # RZero /\ RLess(val, min) THEN val ELSE min

RECURSIVE mat_print_min_j(_, _, _, _)
mat_print_min_j(M, min, i, j) ==
  IF j >= M.ncols THEN min
  ELSE mat_print_min_j(M, mat_print_min_cell(min, M.data[i][j]), i, j + 1)

RECURSIVE mat_print_min_i(_, _, _)
mat_print_min_i(M, min, i) ==
  IF i >= M.nrows THEN min
  ELSE mat_print_min_i(M, mat_print_min_j(M, min, i, 0), i + 1)

\* lines 140 and 151
mat_print_formatstr(min) == IF RLess(min, Rat(1, 1000)) THEN "%14.6e " ELSE "%11.6f "

RECURSIVE mat_print_j(_, _, _, _, _)
mat_print_j(M, formatstr, line, i, j) ==
  IF j >= M.ncols THEN line
  ELSE mat_print_j(M, formatstr, Append(line, fprintf(formatstr, M.data[i][j])), i, j + 1)

RECURSIVE mat_print_i(_, _, _, _)
mat_print_i(M, formatstr, F, i) ==
  IF i >= M.nrows THEN F
  ELSE mat_print_i(M, formatstr, Append(F, mat_print_j(M, formatstr, <<>>, i, 0)), i + 1)

mat_print(id) ==
  /\ outcome = "none"
  /\ LET min == mat_print_min_i(mats[id], RI(INFTY), 0)
     IN  outfile' = mat_print_i(mats[id], mat_print_formatstr(min), outfile, 0)
  /\ call' = [op |-> "mat_print", m |-> id]
  /\ outcome' = "returned"
  /\ mats0' = mats
  /\ vecs0' = vecs
  /\ UNCHANGED <<mats, vecs, ret, backend, stderr, oob, heapvars, stream, mainvars>>

\* The values of the matrices printed: zero, values of ordinary size of either sign,
\* 1e-3 itself, and values below 1e-3.
PrintSamples ==
  <<RI(0), RI(1), Rat(-1, 2), Rat(1, 1000), Rat(1, 2000), Rat(-1, 4000),
    RI(250), Rat(3, 2000), Rat(-2001, 2)>>

PrintFill(base, step, r, c) ==
  Matrix(r, c, [i \in 0..(r - 1) |-> [j \in 0..(c - 1) |->
                  PrintSamples[((base + step * (i * c + j)) % Len(PrintSamples)) + 1]]])

InitPrint ==
  /\ \E base \in 0..(Len(PrintSamples) - 1), step \in {0, 1, 4}, r, c \in Dims :
       mats = [id \in MatIds |-> IF id = "a" THEN PrintFill(base, step, r, c)
                                 ELSE Fill(Offset(id), 1, 1)]
  /\ vecs = [id \in VecIds |-> VFill(Offset(id), 1)]
  /\ InitCall
  /\ InitHeap
  /\ InitStream
  /\ InitMain

NextPrint == mat_print("a")

SpecPrint == InitPrint /\ [][NextPrint]_vars

(***************************************************************************)
(* C10.  print makes one formatting decision for the whole matrix: every   *)
(* element is written in scientific notation if and only if the smallest   *)
(* non-zero absolute value among the elements is below 1e-3, and otherwise *)
(* every element is written fixed-point; the output has nrows lines of     *)
(* ncols values, in row-major order.                                       *)
(***************************************************************************)
NonZeroAbs(M) == {fabs(M.data[x[1]][x[2]]) : x \in Cells(M)} \ {RZero}

\* The smallest non-zero absolute value exists and is below 1e-3.
SmallestIsSmall(M) ==
  \E least \in NonZeroAbs(M) :
    /\ \A other \in NonZeroAbs(M) : ~RLess(other, least)
    /\ RLess(least, Rat(1, 1000))

C10_PrintOneFormatForAll ==
  (Called("mat_print") /\ outcome = "returned") =>
    LET M == mats0[call.m]
        conv == IF SmallestIsSmall(M) THEN "%14.6e " ELSE "%11.6f "
    IN  /\ Len(outfile) = M.nrows
        /\ \A i \in 0..(M.nrows - 1) :
             /\ Len(outfile[i + 1]) = M.ncols
             /\ \A j \in 0..(M.ncols - 1) :
                  /\ outfile[i + 1][j + 1].conv = conv
                  /\ outfile[i + 1][j + 1] =
                       IF conv = "%14.6e " THEN Sci6(M.data[i][j]) ELSE Fixed6(M.data[i][j])

\* One small element among zeros and values of ordinary size: all are written in
\* scientific notation.
C10_Witness ==
  /\ Called("mat_print") /\ outcome = "returned"
  /\ \E x, y, z \in Cells(mats0[call.m]) :
       /\ mats0[call.m].data[x[1]][x[2]] = Rat(1, 2000)
       /\ mats0[call.m].data[y[1]][y[2]] = RZero
       /\ mats0[call.m].data[z[1]][z[2]] = RI(1)
  /\ \A i \in DOMAIN outfile : \A j \in DOMAIN outfile[i] : outfile[i][j].conv = "%14.6e "
  /\ outfile[1][1].digits # 0

(***************************************************************************)
(* mat_read and mat_new_from_file.  The stream is a sequence of characters *)
(* (digits, '-', '+', '.', blanks, and 'x' for any character no number     *)
(* holds; exponents, "inf", "nan" and hexadecimal forms are not written to *)
(* the streams modelled).  fscanf(F, "%lf ", &cell) skips white space,     *)
(* reads the longest run of characters that is a number or the beginning   *)
(* of one, converts and stores it when it is a number, and then skips the  *)
(* white space that follows.  Its result is not looked at by mat_read.     *)
(***************************************************************************)
MaxTokens == 4

Digits == <<"0", "1", "2", "3", "4", "5", "6", "7", "8", "9">>

isdigit(ch) == \E d \in DOMAIN Digits : Digits[d] = ch

DigitValue(ch) == (CHOOSE d \in DOMAIN Digits : Digits[d] = ch) - 1

isspace(ch) == ch \in {" ", "\n", "\t"}

RECURSIVE SkipSpace(_)
SkipSpace(s) == IF s # <<>> /\ isspace(Head(s)) THEN SkipSpace(Tail(s)) ELSE s

\* The run of digits s begins with, accumulated onto num: what follows it, the
\* number so far, and how many digits were taken.
RECURSIVE TakeDigits(_, _, _)
TakeDigits(s, num, count) ==
  IF s # <<>> /\ isdigit(Head(s))
  THEN TakeDigits(Tail(s), 10 * num + DigitValue(Head(s)), count + 1)
  ELSE [rest |-> s, num |-> num, count |-> count]

RECURSIVE Pow10(_)
Pow10(n) == IF n = 0 THEN 1 ELSE 10 * Pow10(n - 1)

\* The %lf conversion on s, which does not begin with white space: an optional
\* sign, digits, and an optional point with digits.  The characters read are
\* consumed whether or not they make a number (ok).
ScanDouble(s) ==
  LET signed == s # <<>> /\ Head(s) \in {"-", "+"}
      s1 == IF signed THEN Tail(s) ELSE s
      ip == TakeDigits(s1, 0, 0)
      dot == ip.rest # <<>> /\ Head(ip.rest) = "."
      fp == IF dot THEN TakeDigits(Tail(ip.rest), ip.num, 0)
            ELSE [rest |-> ip.rest, num |-> ip.num, count |-> 0]
      mag == Rat(fp.num, Pow10(fp.count))
  IN  [rest |-> fp.rest,
       ok |-> ip.count + fp.count > 0,
       val |-> IF signed /\ Head(s) = "-" THEN RSub(RZero, mag) ELSE mag]

\* fscanf that steps over a whole token it cannot convert
fscanf_skipping(s) ==
  LET s1 == SkipSpace(s)
      r == ScanDouble(s1)
      RECURSIVE SkipToken(_)
      SkipToken(x) == IF x # <<>> /\ ~isspace(Head(x)) THEN SkipToken(Tail(x)) ELSE x
  IN  IF s1 = <<>> THEN [stream |-> s1, ret |-> -1, val |-> RZero]
      ELSE IF r.ok /\ (r.rest = <<>> \/ isspace(Head(r.rest)))
           THEN [stream |-> SkipSpace(r.rest), ret |-> 1, val |-> r.val]
           ELSE [stream |-> SkipSpace(SkipToken(s1)), ret |-> 0, val |-> RZero]

\* fscanf(F, "%lf ", &x): the stream it leaves, its result (EOF is -1), and the
\* value stored when the result is 1.
fscanf(s) ==
  LET s1 == SkipSpace(s)
      r == ScanDouble(s1)
  IN  IF s1 = <<>> THEN [stream |-> s1, ret |-> -1, val |-> RZero]
      ELSE IF r.ok THEN [stream |-> SkipSpace(r.rest), ret |-> 1, val |-> r.val]
      ELSE [stream |-> r.rest, ret |-> 0, val |-> RZero]

\* The loops of mat_read thread the matrices and the stream (st = [ms, stream]).
RECURSIVE mat_read_j(_, _, _, _)
mat_read_j(st, id, i, j) ==
  IF j >= st.ms[id].ncols THEN st
  ELSE LET r == fscanf(st.stream)
       IN  mat_read_j([ms |-> IF r.ret = 1 THEN Store(st.ms, id, i, j, r.val) ELSE st.ms,
                       stream |-> r.stream],
                      id, i, j + 1)

RECURSIVE mat_read_i(_, _, _)
mat_read_i(st, id, i) ==
  IF i >= st.ms[id].nrows THEN st
  ELSE mat_read_i(mat_read_j(st, id, i, 0), id, i + 1)

\* A call that reads the stream F into the matrix id of ms.
Reads(c, ms, id) ==
  LET st == mat_read_i([ms |-> ms, stream |-> stream], id, 0)
  IN  /\ call' = c
      /\ mats0' = ms
      /\ vecs0' = vecs
      /\ mats' = st.ms
      /\ stream' = st.stream
      /\ outcome' = "returned"
      /\ UNCHANGED <<vecs, ret, backend, stderr, oob, outfile, heapvars, mainvars>>

mat_read(id) ==
  /\ outcome = "none"
  /\ Reads([op |-> "mat_read", m |-> id, F |-> stream], mats, id)

\* The matrix mat_new returns: its cells hold whatever the storage held.  The
\* caller keeps the pointer returned in its variable id; mats0 is what mat_read
\* was given.
mat_new_from_file(id, nrows, ncols) ==
  /\ outcome = "none"
  /\ LET fresh == Matrix(nrows, ncols,
                         [i \in 0..(nrows - 1) |-> [j \in 0..(ncols - 1) |-> Indeterminate]])
     IN  Reads([op |-> "mat_new_from_file", m |-> id, F |-> stream,
                nrows |-> nrows, ncols |-> ncols],
               [mats EXCEPT ![id] = fresh], id)

\* The tokens written to the streams: numbers, a word, a number run into a word,
\* and a sign on its own.
TokenTexts ==
  { <<"7">>, <<"-", "5">>, <<"4", ".", "5">>, <<"x">>, <<"6", "x">>, <<"-">> }

RECURSIVE Join(_)
Join(toks) ==
  IF toks = <<>> THEN <<>>
  ELSE IF Len(toks) = 1 THEN toks[1] \o <<"\n">>
  ELSE toks[1] \o <<" ">> \o Join(Tail(toks))

InitRead ==
  /\ \E r, c \in Dims :
       mats = [id \in MatIds |-> IF id = "a" THEN Fill(0, r, c) ELSE Fill(Offset(id), 1, 1)]
  /\ vecs = [id \in VecIds |-> VFill(Offset(id), 1)]
  /\ \E n \in 0..MaxTokens : \E toks \in [1..n -> TokenTexts] : stream = Join(toks)
  /\ InitCall
  /\ InitHeap
  /\ InitMain

NextRead ==
  \/ mat_read("a")
  \/ \E nrows, ncols \in Dims : mat_new_from_file("b", nrows, ncols)

SpecRead == InitRead /\ [][NextRead]_vars

(***************************************************************************)
(* What the claims about reading are stated with: the white-space          *)
(* separated tokens of a stream, and the cells of a matrix in row-major    *)
(* order.                                                                  *)
(***************************************************************************)
RECURSIVE Split(_, _)
Split(s, tok) ==
  IF s = <<>> THEN (IF tok = <<>> THEN <<>> ELSE <<tok>>)
  ELSE IF isspace(Head(s))
       THEN (IF tok = <<>> THEN <<>> ELSE <<tok>>) \o Split(Tail(s), <<>>)
       ELSE Split(Tail(s), Append(tok, Head(s)))

Tokens(s) == Split(s, <<>>)

WellFormed(tok) == ScanDouble(tok).ok /\ ScanDouble(tok).rest = <<>>

StartsLikeNumber(tok) == isdigit(Head(tok)) \/ Head(tok) \in {"-", "+", "."}

\* The number of well-formed tokens before the first that is not.
RECURSIVE Leading(_)
Leading(toks) ==
  IF toks # <<>> /\ WellFormed(Head(toks)) THEN 1 + Leading(Tail(toks)) ELSE 0

At(M, k) == M.data[k \div M.ncols][k % M.ncols]

ReadCalled == Called("mat_read") \/ Called("mat_new_from_file")

RECURSIVE mat_transpose_j_untransposed(_, _, _, _)
mat_transpose_j_untransposed(retval, src, i, j) ==
  IF j >= src.ncols THEN retval
  ELSE mat_transpose_j_untransposed([retval EXCEPT !.data[i][j] = src.data[i][j]],
                                    src, i, j + 1)

RECURSIVE mat_transpose_j(_, _, _, _)
mat_transpose_j(retval, src, i, j) ==
  IF j >= src.ncols THEN retval
  ELSE mat_transpose_j([retval EXCEPT !.data[j][i] = src.data[i][j]], src, i, j + 1)

RECURSIVE mat_transpose_i(_, _, _)
mat_transpose_i(retval, src, i) ==
  IF i >= src.nrows THEN retval
  ELSE mat_transpose_i(mat_transpose_j(retval, src, i, 0), src, i + 1)

mat_transpose(retval, src) ==
  /\ \/ outcome = "none"
     \/ /\ outcome = "returned"
        /\ Called("mat_transpose")
        /\ call.prev.op = "none"
        /\ src = call.retval
        /\ retval # call.src
  /\ LET fresh == Matrix(mats[src].ncols, mats[src].nrows,
                         [i \in 0..(mats[src].ncols - 1) |->
                           [j \in 0..(mats[src].nrows - 1) |-> Indeterminate]])
     IN  mats' = [mats EXCEPT ![retval] = mat_transpose_i(fresh, mats[src], 0)]
  /\ call' = [op |-> "mat_transpose", src |-> src, retval |-> retval, prev |-> call]
  /\ mats0' = mats
  /\ vecs0' = vecs
  /\ outcome' = "returned"
  /\ UNCHANGED <<vecs, ret, backend, stderr, oob, outfile, heapvars, stream, mainvars>>

InitTranspose ==
  /\ \E seed \in Seeds, shape \in [MatIds -> Dims \X Dims] :
       mats = [id \in MatIds |-> Fill(seed + Offset(id), shape[id][1], shape[id][2])]
  /\ vecs = [id \in VecIds |-> VFill(Offset(id), 1)]
  /\ InitCall
  /\ InitHeap
  /\ InitStream
  /\ InitMain

NextTranspose == \E src \in MatIds : \E retval \in MatIds \ {src} : mat_transpose(retval, src)

SpecTranspose == InitTranspose /\ [][NextTranspose]_vars

(***************************************************************************)
(* C12.  mat_transpose(src) returns a new matrix of shape src.ncols x      *)
(* src.nrows whose [j][i] entry equals src[i][j], leaves src (and every    *)
(* other matrix) unchanged, and transposing the result gives a matrix of   *)
(* the shape of src that equals it element-wise, square or not.            *)
(***************************************************************************)
C12_TransposeIsInvolution ==
  Called("mat_transpose") =>
    LET S == mats0[call.src]
        T == mats[call.retval]
    IN  /\ outcome = "returned"
        /\ T.nrows = S.ncols
        /\ T.ncols = S.nrows
        /\ DOMAIN T.data = 0..(T.nrows - 1)
        /\ \A j \in DOMAIN T.data : DOMAIN T.data[j] = 0..(T.ncols - 1)
        /\ \A z \in Cells(S) : T.data[z[2]][z[1]] = S.data[z[1]][z[2]]
        /\ \A id \in MatIds \ {call.retval} : mats[id] = mats0[id]
        /\ call.prev.op = "mat_transpose" =>
             LET M == mats[call.prev.src]
             IN  /\ T.nrows = M.nrows
                 /\ T.ncols = M.ncols
                 /\ \A z \in Cells(M) : T.data[z[1]][z[2]] = M.data[z[1]][z[2]]

\* A matrix that is not square and has two different entries, transposed twice.
C12_Witness ==
  /\ Called("mat_transpose")
  /\ call.prev.op = "mat_transpose"
  /\ mats[call.prev.src].nrows # mats[call.prev.src].ncols
  /\ \E y, z \in Cells(mats[call.prev.src]) :
       mats[call.prev.src].data[y[1]][y[2]] # mats[call.prev.src].data[z[1]][z[2]]
  /\ mats[call.retval] = mats[call.prev.src]
  /\ mats[call.src] # mats[call.retval]

(***************************************************************************)
(* C13.  mat_linear_comb(dest, src1, coef1, src2, coef2) on three matrices *)
(* of one shape sets every dest[i][j] to coef1*src1[i][j] +                *)
(* coef2*src2[i][j], computed from the values src1 and src2 held before    *)
(* the call, also when dest is the same matrix as src1, as src2, or as     *)
(* both; nothing else is written.                                          *)
(***************************************************************************)
C13_LinearCombinationAliasSafe ==
  (/\ Called("mat_linear_comb")
   /\ SameShape(mats0, call.dest, call.src1)
   /\ SameShape(mats0, call.dest, call.src2)) =>
    /\ outcome = "returned"
    /\ SameShape(mats, call.dest, call.src1)
    /\ mats[call.dest].nrows = mats0[call.dest].nrows
    /\ mats[call.dest].ncols = mats0[call.dest].ncols
    /\ \A z \in Cells(mats0[call.dest]) :
         mats[call.dest].data[z[1]][z[2]] =
           RAdd(RMul(call.coef1, mats0[call.src1].data[z[1]][z[2]]),
                RMul(call.coef2, mats0[call.src2].data[z[1]][z[2]]))
    /\ \A id \in MatIds \ {call.dest} : mats[id] = mats0[id]
    /\ vecs = vecs0

\* dest is src2 and not src1, 2x2, and the call changed it.
C13_Witness ==
  /\ Called("mat_linear_comb")
  /\ outcome = "returned"
  /\ call.dest = call.src2
  /\ call.dest # call.src1
  /\ mats0[call.dest].nrows = 2 /\ mats0[call.dest].ncols = 2
  /\ \E z \in Cells(mats0[call.dest]) :
       /\ mats0[call.src1].data[z[1]][z[2]] # RZero
       /\ mats0[call.src2].data[z[1]][z[2]] # RZero
       /\ mats[call.dest].data[z[1]][z[2]] # mats0[call.dest].data[z[1]][z[2]]

(***************************************************************************)
(* phyloBoot's main (src/src/phyloBoot/phyloBoot.c): the option loop, the  *)
(* set-up and the replicate loop, for command lines made of the options    *)
(* -n, -R, -x and -q followed by the file names.  argv[k] here is argv[k]  *)
(* of the program (argv[0], its name, is left out), so argc is             *)
(* Len(argv) + 1.  An option is [opt, arg]; a file name is [file], and the *)
(* name tells what the file holds: a model, or an alignment of some number *)
(* of sequences.  A model is known by its number of parameters.            *)
(***************************************************************************)
MaxArgs == 3

NrepsText == "ERROR: Can't use --nreps with --read-mods.\n"

FilenameText == "Input filename required.  Try '%s -h'.\n"

TopologyText == "ERROR: must specify tree topology.\n"

NparamsText == "ERROR: input models have different numbers of parameters.\n"

argc == Len(argv) + 1

die(text) ==
  /\ pc' = "died"
  /\ diemsg' = text
  /\ UNCHANGED <<argv, optind, nreps, input_mods, do_estimates, quiet, rep, nparams>>

\* The option getopt_long returns next, or -1 (written "-1" here, beside the option
\* characters) when argv[optind] is not an option.
getopt_long ==
  IF optind < argc /\ "opt" \in DOMAIN argv[optind] THEN argv[optind].opt ELSE "-1"

optarg == argv[optind].arg

\* get_arg_int_bounds(arg, min, max): the integer arg spells, which must lie in
\* [min, max]
get_arg_int_bounds(arg, min, max) ==
  LET r == TakeDigits(arg, 0, 0)
  IN  [ok |-> r.count > 0 /\ r.rest = <<>> /\ r.num >= min /\ r.num <= max, val |-> r.num]

lst_size(l) == Len(l)

\* case 'n'
case_n ==
  /\ pc = "options"
  /\ UNCHANGED <<callvars, outfile, heapvars, stream>>
  /\ getopt_long = "n"
  /\ IF input_mods # NULL THEN die(NrepsText)
     ELSE /\ get_arg_int_bounds(optarg, 1, INFTY).ok
          /\ nreps' = get_arg_int_bounds(optarg, 1, INFTY).val
          /\ optind' = optind + 1
          /\ UNCHANGED <<argv, input_mods, do_estimates, quiet, pc, diemsg, rep, nparams>>

\* case 'x'
case_x ==
  /\ pc = "options"
  /\ UNCHANGED <<callvars, outfile, heapvars, stream>>
  /\ getopt_long = "x"
  /\ do_estimates' = FALSE
  /\ optind' = optind + 1
  /\ UNCHANGED <<argv, nreps, input_mods, quiet, pc, diemsg, rep, nparams>>

\* case 'R': the models named are read into input_mods
case_R ==
  /\ pc = "options"
  /\ UNCHANGED <<callvars, outfile, heapvars, stream>>
  /\ getopt_long = "R"
  /\ nreps' = lst_size(optarg)
  /\ input_mods' = <<"mods", optarg>>
  /\ optind' = optind + 1
  /\ UNCHANGED <<argv, do_estimates, quiet, pc, diemsg, rep, nparams>>

\* case 'q'
case_q ==
  /\ pc = "options"
  /\ UNCHANGED <<callvars, outfile, heapvars, stream>>
  /\ getopt_long = "q"
  /\ quiet' = TRUE
  /\ optind' = optind + 1
  /\ UNCHANGED <<argv, nreps, input_mods, do_estimates, pc, diemsg, rep, nparams>>

\* getopt_long returns -1: the loop ends
options_done ==
  /\ pc = "options"
  /\ UNCHANGED <<callvars, outfile, heapvars, stream>>
  /\ getopt_long = "-1"
  /\ pc' = "setup"
  /\ UNCHANGED <<argv, optind, nreps, input_mods, do_estimates, quiet, diemsg, rep, nparams>>

\* From srandom to the replicate loop.  Without -t a tree is made only for a
\* model file or for an alignment of two or three sequences.
setup ==
  /\ pc = "setup"
  /\ UNCHANGED <<callvars, outfile, heapvars, stream>>
  /\ IF input_mods = NULL
     THEN IF optind # argc - 1 THEN die(FilenameText)
          ELSE IF argv[optind].file \notin {"mod", "msa2", "msa3"} /\ do_estimates
               THEN die(TopologyText)
          ELSE /\ pc' = "replicates"
               /\ rep' = 0
               /\ UNCHANGED <<argv, optind, nreps, input_mods, do_estimates, quiet,
                              diemsg, nparams>>
     ELSE /\ pc' = "replicates"
          /\ rep' = 0
          /\ UNCHANGED <<argv, optind, nreps, input_mods, do_estimates, quiet,
                         diemsg, nparams>>

\* One turn of for (i = 0; i < nreps; i++)
replicate ==
  /\ pc = "replicates"
  /\ UNCHANGED <<callvars, outfile, heapvars, stream>>
  /\ rep < nreps
  /\ LET \* params->size: the model fitted to the input has four parameters
         size == IF input_mods = NULL THEN 4 ELSE input_mods[2][rep + 1]
     IN  IF input_mods # NULL /\ nparams > 0 /\ size # nparams THEN die(NparamsText)
         ELSE /\ nparams' = IF do_estimates /\ nparams <= 0 THEN size ELSE nparams
              /\ rep' = rep + 1
              /\ UNCHANGED <<argv, optind, nreps, input_mods, do_estimates, quiet, pc,
                             diemsg>>

\* The loop ends, the statistics are printed and main returns 0.
finish ==
  /\ pc = "replicates"
  /\ UNCHANGED <<callvars, outfile, heapvars, stream>>
  /\ rep >= nreps
  /\ pc' = "exited"
  /\ UNCHANGED <<argv, optind, nreps, input_mods, do_estimates, quiet, diemsg, rep, nparams>>

Options ==
  { [opt |-> "n", arg |-> <<"3">>],
    [opt |-> "R", arg |-> <<4, 4>>],
    [opt |-> "R", arg |-> <<4, 5>>],
    [opt |-> "x"],
    [opt |-> "q"] }

Files == { <<>>, <<[file |-> "mod"]>>, <<[file |-> "msa2"]>>, <<[file |-> "msa4"]>>,
           <<[file |-> "msa2"], [file |-> "mod"]>> }

InitBoot ==
  /\ \E n \in 0..MaxArgs : \E opts \in [1..n -> Options] : \E files \in Files :
       argv = opts \o files
  /\ optind = 1
  /\ nreps = 100
  /\ input_mods = NULL
  /\ do_estimates = TRUE
  /\ quiet = FALSE
  /\ pc = "options"
  /\ diemsg = ""
  /\ rep = 0
  /\ nparams = -1
  /\ mats = [id \in MatIds |-> Fill(Offset(id), 1, 1)]
  /\ vecs = [id \in VecIds |-> VFill(Offset(id), 1)]
  /\ InitCall
  /\ InitHeap
  /\ InitStream

NextBoot ==
  \/ case_n
  \/ case_x
  \/ case_R
  \/ case_q
  \/ options_done
  \/ setup
  \/ replicate
  \/ finish

SpecBoot == InitBoot /\ [][NextBoot]_vars

(***************************************************************************)
(* C14.  Option processing rejects every command line that supplies both  *)
(* -n and -R: in either order, the program ends with "Can't use --nreps    *)
(* with --read-mods" and never goes on to the replicate loop.  With -n     *)
(* before -R nothing is checked in case 'R', so this fails.                *)
(***************************************************************************)
Given(o) == \E k \in DOMAIN argv : "opt" \in DOMAIN argv[k] /\ argv[k].opt = o

C14_NrepsWithReadModsRejected ==
  (Given("n") /\ Given("R")) =>
    /\ pc \in {"options", "died"}
    /\ pc = "died" => diemsg = NrepsText

=============================================================================
